---- MODULE Spec2Model ----
(***************************************************************************)
(* betaVAEv2.py: VariationalAutoencoderV2, a beta-VAE with a basic or a    *)
(* probabilistic decoder, its construction, train_step and predict.        *)
(*                                                                         *)
(* Tensors are modelled at one unit per layer and one row per batch, on an *)
(* integer grid: a value is a grid integer or the non-finite value NaN     *)
(* (standing for NaN, +Inf and -Inf), which every operation propagates.    *)
(* Losses are carried in half units (every loss is twice the float value), *)
(* so the factors 0.5 of the source become 1 and no fraction is rounded.   *)
(* exp is 2^v on the grid, 0 below it and non-finite above FloatMaxExp.    *)
(***************************************************************************)
EXTENDS Integers, Sequences, FiniteSets, TLC

VARIABLES
    ctor,                 \* "new" | "ok" | "KeyError" | "ValueError": outcome of __init__
    network_architecture, \* self.network_architecture: field name -> width (missing = absent)
    proba_output,         \* self.proba_output
    beta,                 \* self.beta
    encoder,              \* self.encoder: [pretrained, units, w]
    decoder,              \* self.decoder: [pretrained, kind, units, w]
    trackers,             \* the three keras.metrics.Mean: name -> [total, count]
    pc,                   \* position inside train_step ("idle" between calls)
    step,                 \* locals of the running train_step
    returned,             \* what the last finished train_step gave its caller
    hist,                 \* per-step losses of the completed train_steps, in order
    resetAt,              \* Len(hist) at the last reset of the trackers
    updates,              \* calls of optimizer.apply_gradients so far
    diverged,             \* a completed train_step computed a non-finite total loss
    predLog               \* the predict calls made since the last train_step began

vars == <<ctor, network_architecture, proba_output, beta, encoder, decoder, trackers,
          pc, step, returned, hist, resetAt, updates, diverged, predLog>>

(***************************************************************************)
(* Bounds of the model.                                                    *)
(***************************************************************************)
MaxSteps == 2
MaxWidth == 2
FloatMaxExp == 4

(***************************************************************************)
(* Grid values.                                                            *)
(***************************************************************************)
NaN == [fin |-> FALSE, v |-> 0]

F(i) == [fin |-> TRUE, v |-> i]

IsFinite(a) == a.fin

Add(a, b) == IF a.fin /\ b.fin THEN F(a.v + b.v) ELSE NaN

Sub(a, b) == IF a.fin /\ b.fin THEN F(a.v - b.v) ELSE NaN

Mul(a, b) == IF a.fin /\ b.fin THEN F(a.v * b.v) ELSE NaN

Neg(a) == IF a.fin THEN F(0 - a.v) ELSE NaN

Square(a) == Mul(a, a)

\* a / b: a zero divisor gives a non-finite quotient
Div(a, b) ==
    IF a.fin /\ b.fin /\ b.v # 0
    THEN F(IF b.v > 0 THEN a.v \div b.v ELSE (0 - a.v) \div (0 - b.v))
    ELSE NaN

Relu(a) == IF a.fin THEN F(IF a.v > 0 THEN a.v ELSE 0) ELSE NaN

RECURSIVE Pow2(_)
Pow2(n) == IF n <= 0 THEN 1 ELSE 2 * Pow2(n - 1)

\* exp: underflows to 0 below the grid, overflows to a non-finite value
Exp(a) ==
    IF ~a.fin \/ a.v > FloatMaxExp THEN NaN
    ELSE IF a.v < 0 THEN F(0)
    ELSE F(Pow2(a.v))

RECURSIVE ISqrt(_, _)
ISqrt(n, r) == IF (r + 1) * (r + 1) > n THEN r ELSE ISqrt(n, r + 1)

Sqrt(a) == IF a.fin /\ a.v >= 0 THEN F(ISqrt(a.v, 0)) ELSE NaN

RECURSIVE ILog2(_)
ILog2(n) == IF n <= 1 THEN 0 ELSE 1 + ILog2(n \div 2)

\* log: log(0) = -Inf and log of a negative are non-finite
Log(a) == IF a.fin /\ a.v > 0 THEN F(ILog2(a.v)) ELSE NaN

Half(a) == IF a.fin THEN F(a.v \div 2) ELSE NaN

Sign(a) == IF a.fin THEN F(IF a.v > 0 THEN 1 ELSE IF a.v < 0 THEN 0 - 1 ELSE 0) ELSE NaN

(***************************************************************************)
(* Construction: __init__, create_encoder, create_decoder.                 *)
(***************************************************************************)
ArchFields ==
    {"n_input", "n_z", "n_hidden_recog_1", "n_hidden_recog_2",
     "n_hidden_gener_1", "n_hidden_gener_2"}

Widths == (0 - 1) .. MaxWidth

\* every network_architecture dict over the recognised fields: a field may be absent
Architectures == UNION {[fs -> Widths] : fs \in SUBSET ArchFields}

Has(arch, f) == f \in DOMAIN arch

\* layers.Dense(units): a width that is not positive is refused (a Keras that refuses
\* only negative widths accepts more invalid architectures, never fewer)
DenseOk(units) == units > 0

\* keras.Input(shape): a dimension that is not positive is refused
InputOk(n) == n > 0

EncLayers == {"h1", "h2", "z_mean", "z_log_var"}

BasicLayers == {"h1", "h2", "out"}

ProbaLayers == {"h1", "h2", "x_hat_mean", "x_hat_log_sigma_sq"}

\* the trainable weights of a network: a kernel "w" and a bias "b" per Dense layer
EncNames == EncLayers \X {"w", "b"}

BasicNames == BasicLayers \X {"w", "b"}

ProbaNames == ProbaLayers \X {"w", "b"}

IsBias(n) == n[2] = "b"

\* a fresh Dense layer: kernel on the grid unit, bias zero
FreshWeights(names) == [n \in names |-> IF IsBias(n) THEN F(0) ELSE F(1)]

NoNet ==
    [pretrained |-> FALSE, kind |-> "none", n_in |-> 0, units |-> <<>>,
     w |-> FreshWeights({})]

\* create_encoder: the layer widths it reads and the model it returns
EncoderUnits(arch) ==
    <<arch["n_hidden_recog_1"], arch["n_hidden_recog_2"], arch["n_z"], arch["n_z"]>>

create_encoder(arch) ==
    [pretrained |-> FALSE, kind |-> "encoder", n_in |-> arch["n_input"],
     units |-> EncoderUnits(arch),
     w |-> FreshWeights(EncNames)]

\* the width read for the second hidden layer of a decoder
SecondHiddenWidth(arch) == arch["n_hidden_gener_1"]

create_basic_decoder(arch) ==
    [pretrained |-> FALSE, kind |-> "basic", n_in |-> arch["n_z"],
     units |-> <<arch["n_hidden_gener_1"], SecondHiddenWidth(arch), arch["n_input"]>>,
     w |-> FreshWeights(BasicNames)]

create_probabalistic_decoder(arch) ==
    [pretrained |-> FALSE, kind |-> "proba", n_in |-> arch["n_z"],
     units |-> <<arch["n_hidden_gener_1"], SecondHiddenWidth(arch),
                 arch["n_input"], arch["n_input"]>>,
     w |-> FreshWeights(ProbaNames)]

create_decoder(arch, proba) ==
    IF proba THEN create_probabalistic_decoder(arch) ELSE create_basic_decoder(arch)

\* a model built and trained elsewhere, handed to the constructor
PretrainedEncoder ==
    [pretrained |-> TRUE, kind |-> "encoder", n_in |-> 2, units |-> <<2, 1, 1, 1>>,
     w |-> [n \in EncNames |-> F(1)]]

PretrainedDecoder(kind) ==
    [pretrained |-> TRUE, kind |-> kind, n_in |-> 1,
     units |-> IF kind = "proba" THEN <<1, 2, 2, 2>> ELSE <<1, 2, 2>>,
     w |-> [n \in (IF kind = "proba" THEN ProbaNames ELSE BasicNames) |-> F(1)]]

\* the fields each part of __init__ subscripts, in the order it reads them
InitReads == {"n_z", "n_input"}

EncoderReads == {"n_hidden_recog_1", "n_hidden_recog_2"}

DecoderReads == {"n_hidden_gener_1"}

FieldsRead(preEnc, preDec) ==
    InitReads \cup (IF preEnc = "None" THEN EncoderReads ELSE {})
              \cup (IF preDec = "None" THEN DecoderReads ELSE {})

\* the layers create_encoder / create_*_decoder construct are all accepted
EncoderLayersOk(arch) ==
    /\ InputOk(arch["n_input"])
    /\ \A i \in 1..4 : DenseOk(EncoderUnits(arch)[i])

DecoderLayersOk(arch, proba) ==
    /\ InputOk(arch["n_z"])
    /\ \A i \in DOMAIN create_decoder(arch, proba).units :
          DenseOk(create_decoder(arch, proba).units[i])

\* the outcome of VariationalAutoencoderV2(arch, proba, beta, preEnc, preDec)
CtorOutcome(arch, proba, preEnc, preDec) ==
    IF \E f \in FieldsRead(preEnc, preDec) : ~Has(arch, f) THEN "KeyError"
    ELSE IF preEnc = "None" /\ ~EncoderLayersOk(arch) THEN "ValueError"
    ELSE IF preDec = "None" /\ ~DecoderLayersOk(arch, proba) THEN "ValueError"
    ELSE "ok"

NewTracker == [total |-> F(0), count |-> 0]

TrackerNames == {"loss", "reconstruction_loss", "kl_loss"}

NoParams == [enc |-> FreshWeights({}), dec |-> FreshWeights({})]

\* what a train_step call gave its caller: the mapping it returned or the error it
\* raised; n and since say which completed steps the mapping covers, pre holds the
\* parameters the call started from
NoReturn ==
    [kind |-> "none", loss |-> F(0), reconstruction_loss |-> F(0), kl_loss |-> F(0),
     n |-> 0, since |-> 0, pre |-> NoParams]

NoStep ==
    [data |-> [x |-> F(0), y |-> F(0), n |-> 0], eps |-> 0, branch |-> "none",
     z_mean |-> F(0), z_log_var |-> F(0), z |-> F(0), out |-> <<>>,
     reconstruction_loss |-> F(0), kl_loss |-> F(0), total_loss |-> F(0),
     grads |-> NoParams, pre |-> NoParams,
     trace |-> <<>>]

\* the object __init__ leaves (nothing is built when it raises)
ObjectAfterInit(arch, proba, b, preEnc, preDec) ==
    LET res == CtorOutcome(arch, proba, preEnc, preDec) IN
    [ctor |-> res,
     network_architecture |-> arch,
     proba_output |-> proba,
     beta |-> b,
     encoder |-> IF res # "ok" THEN NoNet
                 ELSE IF preEnc # "None" THEN PretrainedEncoder ELSE create_encoder(arch),
     decoder |-> IF res # "ok" THEN NoNet
                 ELSE IF preDec # "None" THEN PretrainedDecoder(preDec)
                 ELSE create_decoder(arch, proba),
     trackers |-> [t \in TrackerNames |-> NewTracker]]

(***************************************************************************)
(* The networks and the losses.                                            *)
(***************************************************************************)
\* layers.Dense: kernel * input + bias
Dense(w, layer, a) == Add(Mul(w[<<layer, "w">>], a), w[<<layer, "b">>])

\* Sampling.call: z_mean + exp(0.5 * z_log_var) * epsilon
Sampling(z_mean, z_log_var, epsilon) ==
    Add(z_mean, Mul(Exp(Half(z_log_var)), F(epsilon)))

\* self.encoder(x): [z_mean, z_log_var, z]
Encoder(w, x, epsilon) ==
    LET h1 == Relu(Dense(w, "h1", x))
        h2 == Dense(w, "h2", h1)
        z_mean == Dense(w, "z_mean", h2)
        z_log_var == Dense(w, "z_log_var", h2)
    IN  [z_mean |-> z_mean, z_log_var |-> z_log_var,
         z |-> Sampling(z_mean, z_log_var, epsilon)]

\* self.decoder(z): one tensor (basic) or the list [x_hat_mean, x_hat_log_sigma_sq]
Decoder(dec, z) ==
    LET h1 == Relu(Dense(dec.w, "h1", z))
        h2 == Relu(Dense(dec.w, "h2", h1))
    IN  IF dec.kind = "proba"
        THEN <<Dense(dec.w, "x_hat_mean", h2), Dense(dec.w, "x_hat_log_sigma_sq", h2)>>
        ELSE <<Dense(dec.w, "out", h2)>>

Log2Pi == 2

\* mvn_neg_ll(ytrue, (mu, log_sigma_sq)), in half units; n_dims = mu.shape[1]
mvn_neg_ll(ytrue, mu, log_sigma_sq, n_dims) ==
    LET sigma == Sqrt(Exp(log_sigma_sq))
        logsigma == Log(sigma)
        sse == Neg(Square(Div(Sub(ytrue, mu), sigma)))
        sigma_trace == Neg(Mul(F(2), logsigma))
        log2pi == Neg(F(n_dims * Log2Pi))
        log_likelihood == Add(Add(sse, sigma_trace), log2pi)
    IN  Neg(log_likelihood)

RECURSIVE SumSquaredError(_, _)
SumSquaredError(y, outs) ==
    IF outs = <<>> THEN F(0)
    ELSE Add(Square(Sub(y, Head(outs))), SumSquaredError(y, Tail(outs)))

\* reduce_mean(mean_squared_error(y, reconstruction)) over every element the decoder
\* returned, in half units
mean_squared_error(y, outs) ==
    Div(Mul(F(2), SumSquaredError(y, outs)), F(Len(outs)))

\* kl_loss = -0.5 * (1 + z_log_var - z_mean^2 - exp(z_log_var)), in half units
KlLoss(z_mean, z_log_var) ==
    Neg(Sub(Sub(Add(F(1), z_log_var), Square(z_mean)), Exp(z_log_var)))

\* total_loss = reconstruction_loss + self.beta * kl_loss
TotalLossNoBeta(reconstruction_loss, b, kl_loss) == Add(reconstruction_loss, kl_loss)

TotalLoss(reconstruction_loss, b, kl_loss) == Add(reconstruction_loss, Mul(F(b), kl_loss))

\* the branch `if self.proba_output:` selects, in train_step and in predict
Branch(flag, dec) == IF flag THEN "proba" ELSE "basic"

\* unpacking the decoder's output into (x_hat_mean, x_hat_log_sigma_sq) fails unless it
\* holds two items
UnpackFails(branch, outs) == branch = "proba" /\ Len(outs) # 2

\* the reconstruction loss of the branch taken
ReconstructionLoss(branch, y, outs, n_dims) ==
    IF branch = "proba" THEN mvn_neg_ll(y, outs[1], outs[2], n_dims)
    ELSE mean_squared_error(y, outs)

\* the forward pass and the loss of one train_step, from parameters p = [enc, dec]
Losses(p, dec, flag, b, data, epsilon) ==
    LET e == Encoder(p.enc, data.x, epsilon)
        d == [dec EXCEPT !.w = p.dec]
        outs == Decoder(d, e.z)
        br == Branch(flag, d)
        rl == ReconstructionLoss(br, data.y, outs, dec.units[Len(dec.units)])
        kl == KlLoss(e.z_mean, e.z_log_var)
    IN  [reconstruction_loss |-> rl, kl_loss |-> kl, total_loss |-> TotalLoss(rl, b, kl)]

Params == [enc |-> encoder.w, dec |-> decoder.w]

Bump(p, side, n) ==
    IF side = "enc" THEN [p EXCEPT !.enc[n] = Add(@, F(1))]
    ELSE [p EXCEPT !.dec[n] = Add(@, F(1))]

\* tape.gradient(total_loss, self.trainable_weights): the change of the total loss of
\* this forward pass (same batch, same epsilon) per grid step of each weight
Gradients(p, dec, flag, b, data, epsilon) ==
    LET l0 == Losses(p, dec, flag, b, data, epsilon).total_loss
        g(side, n) == Sub(Losses(Bump(p, side, n), dec, flag, b, data, epsilon).total_loss, l0)
    IN  [enc |-> [n \in DOMAIN p.enc |-> g("enc", n)],
         dec |-> [n \in DOMAIN p.dec |-> g("dec", n)]]

\* optimizer.apply_gradients(zip(grads, weights)): one normalised descent step of every
\* weight (Adam's step is the learning rate times the gradient's sign at first order)
apply_gradients_encoder_only(p, grads) ==
    [enc |-> [n \in DOMAIN p.enc |-> Sub(p.enc[n], Sign(grads.enc[n]))],
     dec |-> p.dec]

apply_gradients_skip_nonfinite(p, grads) ==
    [enc |-> [n \in DOMAIN p.enc |->
                IF IsFinite(grads.enc[n]) THEN Sub(p.enc[n], Sign(grads.enc[n])) ELSE p.enc[n]],
     dec |-> [n \in DOMAIN p.dec |->
                IF IsFinite(grads.dec[n]) THEN Sub(p.dec[n], Sign(grads.dec[n])) ELSE p.dec[n]]]

apply_gradients_twice(p, grads) ==
    [enc |-> [n \in DOMAIN p.enc |-> Sub(Sub(p.enc[n], Sign(grads.enc[n])), Sign(grads.enc[n]))],
     dec |-> [n \in DOMAIN p.dec |-> Sub(Sub(p.dec[n], Sign(grads.dec[n])), Sign(grads.dec[n]))]]

apply_gradients(p, grads) ==
    [enc |-> [n \in DOMAIN p.enc |-> Sub(p.enc[n], Sign(grads.enc[n]))],
     dec |-> [n \in DOMAIN p.dec |-> Sub(p.dec[n], Sign(grads.dec[n]))]]

\* keras.metrics.Mean.update_state(value) and .result()
update_state_no_count(t, value) == [total |-> Add(t.total, value), count |-> t.count]

update_state(t, value) == [total |-> Add(t.total, value), count |-> t.count + 1]

result(t) == IF t.count = 0 THEN F(0) ELSE Div(t.total, F(t.count))

(***************************************************************************)
(* The operations.                                                         *)
(***************************************************************************)
\* the architecture of the script, scaled to the grid
ScriptArch ==
    [n_hidden_recog_1 |-> 2, n_hidden_recog_2 |-> 1, n_hidden_gener_1 |-> 1,
     n_hidden_gener_2 |-> 2, n_input |-> 2, n_z |-> 1]

\* values of the beta argument (the default is 1)
Betas == {0, 1, 2}

\* batches (x, y) of fit: n and ny are the feature counts of x and of y
Batches ==
    {[x |-> F(1), y |-> F(1), n |-> 2, ny |-> 2],
     [x |-> F(2), y |-> F(0), n |-> 2, ny |-> 2],
     [x |-> NaN, y |-> F(1), n |-> 2, ny |-> 2],
     [x |-> F(1), y |-> F(1), n |-> 3, ny |-> 3],
     [x |-> F(1), y |-> F(1), n |-> 2, ny |-> 3]}

PredictInputs == {[x |-> F(1), n |-> 2], [x |-> F(2), n |-> 2]}

\* the standard-normal values Sampling may draw
Draws == {0 - 1, 1}

Quiet ==
    /\ pc = "idle" /\ step = NoStep /\ returned = NoReturn /\ hist = <<>>
    /\ resetAt = 0 /\ updates = 0 /\ diverged = FALSE /\ predLog = {}

Installed(o) ==
    /\ ctor = o.ctor
    /\ network_architecture = o.network_architecture
    /\ proba_output = o.proba_output
    /\ beta = o.beta
    /\ encoder = o.encoder
    /\ decoder = o.decoder
    /\ trackers = o.trackers

\* a model constructed from the script's architecture, with either decoder variant
\* built fresh or supplied pre-built
Init ==
    /\ \E proba \in BOOLEAN, b \in Betas, preDec \in {"None", "basic", "proba"} :
          Installed(ObjectAfterInit(ScriptArch, proba, b, "None", preDec))
    /\ Quiet

Raised(p) == [NoReturn EXCEPT !.kind = "raised", !.pre = p]

\* train_step, lines 127-143: encoder, decoder, branch
Forward(data, epsilon) ==
    /\ ctor = "ok" /\ pc = "idle" /\ Len(hist) < MaxSteps
    /\ LET e == Encoder(encoder.w, data.x, epsilon)
           outs == Decoder(decoder, e.z)
           br == Branch(proba_output, decoder)
           fails == \/ data.n # encoder.n_in
                    \/ encoder.units[3] # decoder.n_in
                    \/ UnpackFails(br, outs)
       IN  IF fails
           THEN /\ pc' = "idle"
                /\ step' = NoStep
                /\ returned' = Raised(Params)
           ELSE /\ pc' = "loss"
                /\ step' = [NoStep EXCEPT !.data = data, !.eps = epsilon, !.branch = br,
                                          !.z_mean = e.z_mean, !.z_log_var = e.z_log_var,
                                          !.z = e.z, !.out = outs, !.pre = Params,
                                          !.trace = <<"forward">>]
                /\ returned' = NoReturn
    /\ predLog' = {}
    /\ UNCHANGED <<ctor, network_architecture, proba_output, beta, encoder, decoder,
                   trackers, hist, resetAt, updates, diverged>>

\* train_step, lines 135-147: reconstruction_loss, kl_loss, total_loss
LossAssembly ==
    /\ pc = "loss"
    /\ IF step.data.ny # decoder.units[Len(decoder.units)]
       THEN /\ pc' = "idle"
            /\ step' = NoStep
            /\ returned' = Raised(step.pre)
       ELSE LET rl == ReconstructionLoss(step.branch, step.data.y, step.out,
                                         decoder.units[Len(decoder.units)])
                kl == KlLoss(step.z_mean, step.z_log_var)
            IN  /\ pc' = "grad"
                /\ step' = [step EXCEPT !.reconstruction_loss = rl, !.kl_loss = kl,
                                        !.total_loss = TotalLoss(rl, beta, kl),
                                        !.trace = Append(@, "loss")]
                /\ UNCHANGED returned
    /\ UNCHANGED <<ctor, network_architecture, proba_output, beta, encoder, decoder,
                   trackers, hist, resetAt, updates, diverged, predLog>>

\* train_step, line 148
GradientComputation ==
    /\ pc = "grad"
    /\ pc' = "update"
    /\ step' = [step EXCEPT
                  !.grads = Gradients(step.pre, decoder, proba_output, beta,
                                      step.data, step.eps),
                  !.trace = Append(@, "grad")]
    /\ UNCHANGED <<ctor, network_architecture, proba_output, beta, encoder, decoder,
                   trackers, returned, hist, resetAt, updates, diverged, predLog>>

\* train_step, line 149
ParameterUpdate ==
    /\ pc = "update"
    /\ pc' = "metric"
    /\ LET new == apply_gradients(Params, step.grads)
       IN  /\ encoder' = [encoder EXCEPT !.w = new.enc]
           /\ decoder' = [decoder EXCEPT !.w = new.dec]
    /\ updates' = updates + 1
    /\ step' = [step EXCEPT !.trace = Append(@, "update")]
    /\ UNCHANGED <<ctor, network_architecture, proba_output, beta, trackers, returned,
                   hist, resetAt, diverged, predLog>>

\* train_step, lines 150-152
MetricUpdate ==
    /\ pc = "metric"
    /\ pc' = "report"
    /\ trackers' =
          [loss |-> update_state(trackers["loss"], step.total_loss),
           reconstruction_loss |->
               update_state(trackers["reconstruction_loss"], step.reconstruction_loss),
           kl_loss |-> update_state(trackers["kl_loss"], step.kl_loss)]
    /\ step' = [step EXCEPT !.trace = Append(@, "metric")]
    /\ UNCHANGED <<ctor, network_architecture, proba_output, beta, encoder, decoder,
                   returned, hist, resetAt, updates, diverged, predLog>>

\* train_step, lines 153-157
Report ==
    /\ pc = "report"
    /\ pc' = "idle"
    /\ returned' = [kind |-> "ok", loss |-> result(trackers["loss"]),
                    reconstruction_loss |-> result(trackers["reconstruction_loss"]),
                    kl_loss |-> result(trackers["kl_loss"]),
                    n |-> Len(hist) + 1, since |-> resetAt, pre |-> step.pre]
    /\ hist' = Append(hist, [loss |-> step.total_loss,
                             reconstruction_loss |-> step.reconstruction_loss,
                             kl_loss |-> step.kl_loss])
    /\ diverged' = (diverged \/ ~IsFinite(step.total_loss))
    /\ step' = NoStep
    /\ UNCHANGED <<ctor, network_architecture, proba_output, beta, encoder, decoder,
                   trackers, resetAt, updates, predLog>>

\* the latent vector predict hands to the decoder
PredictLatentSampled(e) == e.z

PredictLatent(e) == e.z_mean

\* predict(x)
PredictTouchingTrackers(input, epsilon) ==
    /\ ctor = "ok" /\ pc = "idle"
    /\ LET e == Encoder(encoder.w, input.x, epsilon)
           outs == Decoder(decoder, PredictLatent(e))
           br == Branch(proba_output, decoder)
           fails == \/ input.n # encoder.n_in
                    \/ encoder.units[3] # decoder.n_in
                    \/ UnpackFails(br, outs)
       IN  predLog' = predLog \cup
              {[x |-> input.x, eps |-> epsilon, z |-> e.z, branch |-> br,
                kind |-> IF fails THEN "raised" ELSE "ok",
                out |-> IF fails THEN <<>> ELSE IF br = "proba" THEN <<outs[1]>> ELSE outs]}
    /\ trackers' = [trackers EXCEPT !["loss"] = update_state(@, F(0))]
    /\ UNCHANGED <<ctor, network_architecture, proba_output, beta, encoder, decoder,
                   pc, step, returned, hist, resetAt, updates, diverged>>

Predict(input, epsilon) ==
    /\ ctor = "ok" /\ pc = "idle"
    /\ LET e == Encoder(encoder.w, input.x, epsilon)
           outs == Decoder(decoder, PredictLatent(e))
           br == Branch(proba_output, decoder)
           fails == \/ input.n # encoder.n_in
                    \/ encoder.units[3] # decoder.n_in
                    \/ UnpackFails(br, outs)
       IN  predLog' = predLog \cup
              {[x |-> input.x, eps |-> epsilon, z |-> e.z, branch |-> br,
                kind |-> IF fails THEN "raised" ELSE "ok",
                out |-> IF fails THEN <<>> ELSE IF br = "proba" THEN <<outs[1]>> ELSE outs]}
    /\ UNCHANGED <<ctor, network_architecture, proba_output, beta, encoder, decoder,
                   trackers, pc, step, returned, hist, resetAt, updates, diverged>>

\* fit: at the start of every epoch reset_metrics() resets each tracker of self.metrics
FitEpochBegin ==
    /\ ctor = "ok" /\ pc = "idle"
    /\ trackers' = [t \in TrackerNames |-> NewTracker]
    /\ resetAt' = Len(hist)
    /\ UNCHANGED <<ctor, network_architecture, proba_output, beta, encoder, decoder,
                   pc, step, returned, hist, updates, diverged, predLog>>

Next ==
    \/ \E data \in Batches, epsilon \in Draws : Forward(data, epsilon)
    \/ LossAssembly
    \/ GradientComputation
    \/ ParameterUpdate
    \/ MetricUpdate
    \/ Report
    \/ \E input \in PredictInputs, epsilon \in Draws : Predict(input, epsilon)
    \/ FitEpochBegin

Spec == Init /\ [][Next]_vars

\* the constructor, called with any architecture dict and any arguments
InitNew ==
    /\ Installed([ObjectAfterInit(ScriptArch, TRUE, 1, "None", "None")
                   EXCEPT !.ctor = "new", !.encoder = NoNet, !.decoder = NoNet,
                          !.network_architecture = <<>>])
    /\ Quiet

Construct(arch, proba, b, preEnc, preDec) ==
    /\ ctor = "new"
    /\ LET o == ObjectAfterInit(arch, proba, b, preEnc, preDec)
       IN  /\ ctor' = o.ctor
           /\ network_architecture' = o.network_architecture
           /\ proba_output' = o.proba_output
           /\ beta' = o.beta
           /\ encoder' = o.encoder
           /\ decoder' = o.decoder
           /\ trackers' = o.trackers
    /\ UNCHANGED <<pc, step, returned, hist, resetAt, updates, diverged, predLog>>

NextBuild ==
    /\ ctor = "new"
    /\ \E arch \in Architectures, proba \in BOOLEAN, preEnc \in {"None", "encoder"},
          preDec \in {"None", "basic", "proba"} :
            Construct(arch, proba, 1, preEnc, preDec)

SpecBuild == InitNew /\ [][NextBuild]_vars

(***************************************************************************)
(* Properties.                                                             *)
(***************************************************************************)
\* every weight of p moved one descent step along the gradient g
SteppedFrom(p, g) ==
    [enc |-> [n \in DOMAIN p.enc |-> Sub(p.enc[n], Sign(g.enc[n]))],
     dec |-> [n \in DOMAIN p.dec |-> Sub(p.dec[n], Sign(g.dec[n]))]]

RECURSIVE SumOf(_, _)
SumOf(seq, name) ==
    IF seq = <<>> THEN F(0) ELSE Add(Head(seq)[name], SumOf(Tail(seq), name))

MeanOf(seq, name) == Div(SumOf(seq, name), F(Len(seq)))

\* C1: train_step is atomic with respect to the parameters: a call that raises leaves
\* every trainable parameter at its value before the call, and otherwise the parameters
\* of encoder and decoder are all updated together from the one gradient of the call
\* (before the update none has changed, after it every one has taken its step).
C1_TrainStepAtomic ==
    /\ returned.kind = "raised" => Params = returned.pre
    /\ pc \in {"loss", "grad", "update"} => Params = step.pre
    /\ pc \in {"metric", "report"} => Params = SteppedFrom(step.pre, step.grads)

C1_Witness ==
    /\ returned.kind = "raised"
    /\ updates > 0
    /\ \E n \in DOMAIN encoder.w : encoder.w[n] # FreshWeights(EncNames)[n]
    /\ \E n \in DOMAIN decoder.w : decoder.w[n] # F(1) /\ decoder.w[n] # F(0)

\* C2: predict is deterministic: two predict calls on the same parameters and the same
\* input return the same output, whatever Sampling drew in each call.
C2_PredictDeterministic ==
    \A p, q \in predLog : p.x = q.x => p.kind = q.kind /\ p.out = q.out

C2_Witness ==
    \E p, q \in predLog :
        /\ p.x = q.x /\ p.eps # q.eps /\ p.z # q.z
        /\ p.kind = "ok" /\ IsFinite(p.out[1])
        /\ updates > 0

FreshFields ==
    {"n_input", "n_z"}
    \cup (IF encoder.pretrained THEN {} ELSE {"n_hidden_recog_1", "n_hidden_recog_2"})
    \cup (IF decoder.pretrained THEN {} ELSE {"n_hidden_gener_1", "n_hidden_gener_2"})

\* C4 (as stated): a constructor call with a field of a freshly built sub-network
\* missing or non-positive ends in an error: every model that exists has all those
\* fields present and positive.
C4_ConfigErrorsDetected ==
    ctor = "ok" /\ ~(encoder.pretrained /\ decoder.pretrained) =>
        \A f \in FreshFields :
            Has(network_architecture, f) /\ network_architecture[f] > 0

\* C5 (as stated): a decoder built from the architecture has a first hidden layer of
\* width n_hidden_gener_1 and a second hidden layer of width n_hidden_gener_2 (stated
\* here for the architectures whose six widths are all present and positive).
C5_DecoderHiddenWidths ==
    /\ ctor = "ok" /\ ~decoder.pretrained
    /\ \A f \in ArchFields : Has(network_architecture, f) /\ network_architecture[f] > 0
    =>
        /\ decoder.units[1] = network_architecture["n_hidden_gener_1"]
        /\ decoder.units[2] = network_architecture["n_hidden_gener_2"]

\* C6 (as stated): in every train_step and every predict the probabilistic branch is
\* taken exactly when the decoder the model owns is the probabilistic variant.
C6_BranchFollowsDecoder ==
    /\ pc # "idle" => (step.branch = "proba" <=> decoder.kind = "proba")
    /\ \A p \in predLog : p.branch = "proba" <=> decoder.kind = "proba"

\* C7: in every training step total_loss = reconstruction_loss + beta * kl_loss, and
\* beta keeps the value the constructor stored: no operation changes it.
C7_LossIsBetaWeighted ==
    pc \in {"grad", "update", "metric", "report"} =>
        step.total_loss = Add(step.reconstruction_loss, Mul(F(beta), step.kl_loss))

C7_BetaWeightedTotal == []C7_LossIsBetaWeighted /\ [][beta' = beta]_vars

C7_Witness ==
    /\ pc = "grad" /\ beta = 2 /\ updates > 0
    /\ IsFinite(step.total_loss) /\ step.kl_loss # F(0)
    /\ step.reconstruction_loss # F(0)

PhaseOrder == <<"forward", "loss", "grad", "update", "metric">>

PhaseAt == [loss |-> 1, grad |-> 2, update |-> 3, metric |-> 4, report |-> 5]

\* C9: a train_step passes through forward, loss-assembly, gradient-computation,
\* parameter-update, metric-update, report in this order, none skipped or repeated; the
\* optimizer update is applied exactly once per step, to encoder and decoder jointly, with
\* the gradient of the total loss at the parameters held before the update; and the
\* values pushed into the accumulators are the losses computed from those parameters.
C9_PhasesInOrder ==
    /\ pc = "idle" => step.trace = <<>>
    /\ pc # "idle" => step.trace = SubSeq(PhaseOrder, 1, PhaseAt[pc])
    /\ updates = Len(hist) + (IF pc \in {"metric", "report"} THEN 1 ELSE 0)
    /\ pc \in {"update", "metric", "report"} =>
          step.grads = Gradients(step.pre, decoder, proba_output, beta, step.data, step.eps)
    /\ pc \in {"metric", "report"} => Params = SteppedFrom(step.pre, step.grads)
    /\ pc = "report" =>
          LET l == Losses(step.pre, decoder, proba_output, beta, step.data, step.eps)
              before == SubSeq(hist, resetAt + 1, Len(hist))
          IN  \A t \in TrackerNames :
                  trackers[t].total = Add(SumOf(before, t), l[IF t = "loss" THEN "total_loss" ELSE t])

C9_Witness ==
    /\ pc = "report" /\ Len(hist) = 1
    /\ IsFinite(step.total_loss) /\ step.total_loss # F(0)
    /\ \E n \in DOMAIN step.grads.enc : step.grads.enc[n] # F(0)
    /\ \E n \in DOMAIN step.grads.dec : step.grads.dec[n] # F(0)

====
